---- MODULE Spec2Model ----
(***************************************************************************)
(* Coupon management service: the catalog (COUPONS_DB), the per-user usage *)
(* counters (USAGE_PER_USER), the create-coupon and best-coupon handlers   *)
(* of src/main.py and the pure business logic they call.                   *)
(*                                                                         *)
(* Conventions.                                                            *)
(*  - Optional[T]: None is <<>>, a present value v is <<v>>.               *)
(*  - Strings that are case-folded or ordered (coupon codes, discount      *)
(*    types) are sequences of ASCII code points; strings that are only     *)
(*    compared for equality (user ids, tiers, countries, categories) are   *)
(*    TLA+ strings.                                                        *)
(*  - Dates are day numbers.                                               *)
(*  - Money is exact: prices, discount values and caps are integers and a  *)
(*    computed discount is carried in hundredths of a unit, so that        *)
(*    cart_value * (discountValue / 100.0) is exact. Floating-point        *)
(*    rounding, NaN and infinities are outside the model.                  *)
(***************************************************************************)
EXTENDS Integers, Sequences, FiniteSets, TLC

VARIABLES
    COUPONS_DB,       \* insertion-ordered dict: sequence of [key, coupon]
    USAGE_PER_USER,   \* dict: function from <<userId, code>> to a count
    today,            \* date.today()
    resp,             \* the last request and its response
    returned,         \* number of best-coupon requests that returned a coupon
                      \* (with two copies of the service: number of requests)
    threads,          \* concurrent best-coupon requests: position and locals of each
    fixed,            \* repeated requests: the profile and cart each user repeats
    hist,             \* repeated requests: per user, the last discount and the hits
    USAGE_TWIN,       \* the usage counters of a second copy of the service
    respTwin,         \* the last response of the second copy
    arg,              \* the arguments of a call of a pure function
    ret               \* the value the call returned

svcVars == <<COUPONS_DB, USAGE_PER_USER, today, resp, returned>>
auxVars == <<threads, fixed, hist, USAGE_TWIN, respTwin, arg, ret>>
vars == <<svcVars, auxVars>>

-----------------------------------------------------------------------------
(* Bounds of the model *)

MaxCoupons == 2
MaxReturned == 3
MaxDay == 2

(* discount = cart_value * (discountValue / 100.0) *)
PercentBase == 100

-----------------------------------------------------------------------------
(* Optional values and small helpers *)

None == <<>>
Some(v) == <<v>>
IsSome(x) == x # <<>>

Min(a, b) == IF b < a THEN b ELSE a
Max(a, b) == IF b > a THEN b ELSE a

(* dict.get(key, 0) *)
Get(d, key) == IF key \in DOMAIN d THEN d[key] ELSE 0

(* d[key] = v *)
Put(d, key, v) == [k \in DOMAIN d \cup {key} |-> IF k = key THEN v ELSE d[k]]

(* x in list *)
InList(x, list) == \E i \in DOMAIN list : list[i] = x

-----------------------------------------------------------------------------
(* Strings as sequences of ASCII code points *)

(* str.upper(), ASCII letters *)
Upper(s) == [i \in DOMAIN s |-> IF s[i] \in 97..122 THEN s[i] - 32 ELSE s[i]]

(* s < t for Python strings: lexicographic by code point *)
RECURSIVE StrLess(_, _)
StrLess(s, t) ==
    IF t = <<>> THEN FALSE
    ELSE IF s = <<>> THEN TRUE
    ELSE IF Head(s) # Head(t) THEN Head(s) < Head(t)
    ELSE StrLess(Tail(s), Tail(t))

FLAT == <<70, 76, 65, 84>>
PERCENT == <<80, 69, 82, 67, 69, 78, 84>>

-----------------------------------------------------------------------------
(* Data model *)

Eligibility(tiers, spend, orders, first, countries, cartv, applicable, excluded, items) ==
    [allowedUserTiers |-> tiers, minLifetimeSpend |-> spend,
     minOrdersPlaced |-> orders, firstOrderOnly |-> first,
     allowedCountries |-> countries, minCartValue |-> cartv,
     applicableCategories |-> applicable, excludedCategories |-> excluded,
     minItemsCount |-> items]

(* Field(default_factory=Eligibility): every field None *)
DefaultEligibility == Eligibility(None, None, None, None, None, None, None, None, None)

Coupon(code, dtype, dvalue, cap, sd, ed, limit, elig) ==
    [code |-> code, discountType |-> dtype, discountValue |-> dvalue,
     maxDiscountAmount |-> cap, startDate |-> sd, endDate |-> ed,
     usageLimitPerUser |-> limit, eligibility |-> elig]

UserContext(id, tier, country, spend, orders) ==
    [userId |-> id, userTier |-> tier, country |-> country,
     lifetimeSpend |-> spend, ordersPlaced |-> orders]

CartItem(pid, category, price, qty) ==
    [productId |-> pid, category |-> category, unitPrice |-> price, quantity |-> qty]

-----------------------------------------------------------------------------
(* Business logic *)

RECURSIVE compute_cart_value(_)
compute_cart_value(cart) ==
    IF cart = <<>> THEN 0
    ELSE Head(cart).unitPrice * Head(cart).quantity + compute_cart_value(Tail(cart))

RECURSIVE compute_items_count(_)
compute_items_count(cart) ==
    IF cart = <<>> THEN 0
    ELSE Head(cart).quantity + compute_items_count(Tail(cart))

get_cart_categories(cart) == {cart[i].category : i \in DOMAIN cart}

is_within_date_range(coupon, day) ==
    coupon.startDate <= day /\ day <= coupon.endDate

(* Mutant: the limit is compared with <= *)
has_remaining_usage_OffByOne(usage, coupon, user) ==
    IF coupon.usageLimitPerUser = None THEN TRUE
    ELSE Get(usage, <<user.userId, coupon.code>>) <= coupon.usageLimitPerUser[1]

(* Mutant: the count of any user of the code is compared with the limit *)
has_remaining_usage_AnyUser(usage, coupon, user) ==
    IF coupon.usageLimitPerUser = None THEN TRUE
    ELSE \A key \in DOMAIN usage \cup {<<user.userId, coupon.code>>} :
            key[2] = coupon.code => Get(usage, key) < coupon.usageLimitPerUser[1]

has_remaining_usage(usage, coupon, user) ==
    IF coupon.usageLimitPerUser = None THEN TRUE
    ELSE Get(usage, <<user.userId, coupon.code>>) < coupon.usageLimitPerUser[1]

(* truthiness of an Optional[List]: present and non-empty *)
TruthyList(x) == IsSome(x) /\ x[1] # <<>>

(* truthiness of an Optional[bool]: present and True *)
TruthyBool(x) == IsSome(x) /\ x[1]

user_eligibility_ok(elig, user, is_first_order) ==
    /\ ~(TruthyList(elig.allowedUserTiers)
            /\ ~InList(user.userTier, elig.allowedUserTiers[1]))
    /\ ~(IsSome(elig.minLifetimeSpend)
            /\ user.lifetimeSpend < elig.minLifetimeSpend[1])
    /\ ~(IsSome(elig.minOrdersPlaced)
            /\ user.ordersPlaced < elig.minOrdersPlaced[1])
    /\ ~(TruthyBool(elig.firstOrderOnly) /\ ~is_first_order)
    /\ ~(TruthyList(elig.allowedCountries)
            /\ ~InList(user.country, elig.allowedCountries[1]))

cart_eligibility_ok(elig, cart) ==
    LET cart_value == compute_cart_value(cart)
        items_count == compute_items_count(cart)
        categories == get_cart_categories(cart)
    IN  /\ ~(IsSome(elig.minCartValue) /\ cart_value < elig.minCartValue[1])
        /\ ~(IsSome(elig.minItemsCount) /\ items_count < elig.minItemsCount[1])
        /\ ~(TruthyList(elig.applicableCategories)
                /\ ~(\E c \in categories : InList(c, elig.applicableCategories[1])))
        /\ ~(TruthyList(elig.excludedCategories)
                /\ (\E c \in categories : InList(c, elig.excludedCategories[1])))

(* Mutant: the discount is not limited to the cart value *)
compute_discount_NoCartClamp(coupon, cart_value) ==
    LET dtype == Upper(coupon.discountType)
        discount ==
            IF dtype = FLAT THEN coupon.discountValue * PercentBase
            ELSE IF dtype = PERCENT THEN
                IF IsSome(coupon.maxDiscountAmount)
                THEN Min(cart_value * coupon.discountValue,
                         coupon.maxDiscountAmount[1] * PercentBase)
                ELSE cart_value * coupon.discountValue
            ELSE 0
    IN  Max(0, discount)

(* The result is in hundredths: cart_value * discountValue stands for           *)
(* cart_value * (discountValue / 100.0), and the other amounts are scaled alike. *)
compute_discount(coupon, cart_value) ==
    LET dtype == Upper(coupon.discountType)
        discount ==
            IF dtype = FLAT THEN coupon.discountValue * PercentBase
            ELSE IF dtype = PERCENT THEN
                IF IsSome(coupon.maxDiscountAmount)
                THEN Min(cart_value * coupon.discountValue,
                         coupon.maxDiscountAmount[1] * PercentBase)
                ELSE cart_value * coupon.discountValue
            ELSE 0
    IN  Max(0, Min(discount, cart_value * PercentBase))

(* Mutant: the sort key is (-discount, code, endDate) *)
KeyLess_CodeBeforeEndDate(a, b) ==
    \/ a.discount > b.discount
    \/ /\ a.discount = b.discount
       /\ \/ StrLess(a.coupon.code, b.coupon.code)
          \/ /\ a.coupon.code = b.coupon.code
             /\ a.coupon.endDate < b.coupon.endDate

(* The sort key (-discount, endDate, code), compared as Python compares tuples *)
KeyLess(a, b) ==
    \/ a.discount > b.discount
    \/ /\ a.discount = b.discount
       /\ \/ a.coupon.endDate < b.coupon.endDate
          \/ /\ a.coupon.endDate = b.coupon.endDate
             /\ StrLess(a.coupon.code, b.coupon.code)

(* list.sort(key=...) is stable: an element goes after the elements it does *)
(* not precede                                                               *)
RECURSIVE InsertSorted(_, _)
InsertSorted(x, s) ==
    IF s = <<>> THEN <<x>>
    ELSE IF KeyLess(x, Head(s)) THEN <<x>> \o s
    ELSE <<Head(s)>> \o InsertSorted(x, Tail(s))

RECURSIVE SortByKey(_)
SortByKey(s) ==
    IF s = <<>> THEN <<>>
    ELSE InsertSorted(s[Len(s)], SortByKey(SubSeq(s, 1, Len(s) - 1)))

pick_best_coupon(coupons) ==
    IF coupons = <<>> THEN None
    ELSE Some(SortByKey(coupons)[1])

(* Mutant: the counter is set to 1 instead of being read and incremented *)
increment_usage_Overwrite(usage, coupon, user) ==
    Put(usage, <<user.userId, coupon.code>>, 1)

increment_usage(usage, coupon, user) ==
    Put(usage, <<user.userId, coupon.code>>,
        Get(usage, <<user.userId, coupon.code>>) + 1)

(* Mutant: a candidate is kept when its discount is >= 0 *)
PassesFilters_ZeroDiscount(usage, day, user, cart, coupon) ==
    /\ coupon.startDate <= day /\ day <= coupon.endDate
    /\ (coupon.usageLimitPerUser = None
        \/ Get(usage, <<user.userId, coupon.code>>) < coupon.usageLimitPerUser[1])
    /\ user_eligibility_ok(coupon.eligibility, user, user.ordersPlaced = 0)
    /\ cart_eligibility_ok(coupon.eligibility, cart)
    /\ compute_discount(coupon, compute_cart_value(cart)) >= 0

(* The loop of get_best_coupon over COUPONS_DB.values(), in insertion order *)
PassesFilters(usage, day, user, cart, coupon) ==
    /\ is_within_date_range(coupon, day)
    /\ has_remaining_usage(usage, coupon, user)
    /\ user_eligibility_ok(coupon.eligibility, user, user.ordersPlaced = 0)
    /\ cart_eligibility_ok(coupon.eligibility, cart)
    /\ compute_discount(coupon, compute_cart_value(cart)) > 0

candidate_discounts(db, usage, day, user, cart) ==
    LET pairs == [i \in DOMAIN db |->
                    [coupon |-> db[i].coupon,
                     discount |-> compute_discount(db[i].coupon, compute_cart_value(cart))]]
    IN  SelectSeq(pairs, LAMBDA p : PassesFilters(usage, day, user, cart, p.coupon))

(* BestCouponResponse *)
BestCouponResponse(user, cart, best) ==
    IF best = None
    THEN [kind |-> "best", user |-> user, cart |-> cart,
          coupon |-> None, discountAmount |-> 0]
    ELSE [kind |-> "best", user |-> user, cart |-> cart,
          coupon |-> Some(best[1].coupon), discountAmount |-> best[1].discount]

(* Mutant: the usage of the returned coupon is not consumed *)
UsageAfter_NoIncrement(usage, user, best) == usage

(* The usage dict after the request *)
UsageAfter(usage, user, best) ==
    IF best = None THEN usage ELSE increment_usage(usage, best[1].coupon, user)

-----------------------------------------------------------------------------
(* Request inputs *)

OnlyFirstOrder ==
    Eligibility(None, None, None, Some(TRUE), None, None, None, None, None)

ElectronicsOver50 ==
    Eligibility(None, None, None, None, None, Some(50), Some(<<"electronics">>), None, None)

CouponPool ==
    { Coupon(<<97>>, FLAT, 10, None, 1, 2, Some(1), DefaultEligibility),
      Coupon(<<65>>, <<80, 101, 114, 99, 101, 110, 116>>, 50, Some(20), 1, 1, None,
             DefaultEligibility),
      Coupon(<<66>>, <<102, 108, 97, 116>>, 10, None, 1, 1, Some(2), OnlyFirstOrder),
      Coupon(<<65, 66>>, PERCENT, 10, None, 2, 2, Some(1), ElectronicsOver50),
      Coupon(<<65, 98>>, FLAT, 30, None, 2, 1, Some(1), DefaultEligibility),
      Coupon(<<98>>, FLAT, 30, None, 1, 2, Some(-1), DefaultEligibility) }

UserPool ==
    { UserContext("u1", "GOLD", "IN", 500, 3),
      UserContext("u1", "NEW", "US", 0, 0),
      UserContext("u2", "NEW", "IN", 0, 0) }

CartPool ==
    { <<>>,
      <<CartItem("p1", "electronics", 100, 1)>>,
      <<CartItem("p2", "grocery", 5, 1), CartItem("p3", "grocery", 7, 0)>> }

-----------------------------------------------------------------------------
(* The service *)

Unused == "unused"

AuxInit ==
    /\ threads = Unused
    /\ fixed = Unused
    /\ hist = Unused
    /\ USAGE_TWIN = Unused
    /\ respTwin = Unused
    /\ arg = Unused
    /\ ret = Unused

Init ==
    /\ COUPONS_DB = <<>>
    /\ USAGE_PER_USER = <<>>
    /\ today = 1
    /\ resp = [kind |-> "none"]
    /\ returned = 0
    /\ AuxInit

HasKey(db, key) == \E i \in DOMAIN db : db[i].key = key

(* Mutant: the duplicate check looks up the code as given *)
CreateResult_NoCaseFold(db, coupon) ==
    LET code_upper == Upper(coupon.code) IN
    IF HasKey(db, coupon.code)
    THEN [db |-> db, status |-> 400]
    ELSE [db |-> Append(db, [key |-> code_upper,
                             coupon |-> [coupon EXCEPT !.code = code_upper]]),
          status |-> 200]

(* The body of create_coupon on a catalog: the catalog after it and the status *)
CreateResult(db, coupon) ==
    LET code_upper == Upper(coupon.code) IN
    IF HasKey(db, code_upper)
    THEN [db |-> db, status |-> 400]
    ELSE [db |-> Append(db, [key |-> code_upper,
                             coupon |-> [coupon EXCEPT !.code = code_upper]]),
          status |-> 200]

(* POST /coupons *)
create_coupon(coupon) ==
    LET r == CreateResult(COUPONS_DB, coupon) IN
    /\ Len(r.db) <= MaxCoupons
    /\ COUPONS_DB' = r.db
    /\ resp' = [kind |-> "create", input |-> coupon, status |-> r.status]
    /\ UNCHANGED <<USAGE_PER_USER, today, returned>>
    /\ UNCHANGED auxVars

(* POST /best-coupon *)
get_best_coupon(user, cart) ==
    LET best == pick_best_coupon(
                    candidate_discounts(COUPONS_DB, USAGE_PER_USER, today, user, cart))
    IN  /\ returned < MaxReturned
        /\ USAGE_PER_USER' = UsageAfter(USAGE_PER_USER, user, best)
        /\ resp' = BestCouponResponse(user, cart, best)
        /\ returned' = IF best = None THEN returned ELSE returned + 1
        /\ UNCHANGED <<COUPONS_DB, today>>
        /\ UNCHANGED auxVars

(* The calendar day changes between requests *)
NextDay ==
    /\ today < MaxDay
    /\ today' = today + 1
    /\ UNCHANGED <<COUPONS_DB, USAGE_PER_USER, resp, returned>>
    /\ UNCHANGED auxVars

Next ==
    \/ \E coupon \in CouponPool : create_coupon(coupon)
    \/ \E user \in UserPool, cart \in CartPool : get_best_coupon(user, cart)
    \/ NextDay

Spec == Init /\ [][Next]_vars

-----------------------------------------------------------------------------
(* Properties of the sequential service *)

UserIds == {u.userId : u \in UserPool}

RECURSIVE SumOver(_, _)
SumOver(d, keys) ==
    IF keys = {} THEN 0
    ELSE LET k == CHOOSE x \in keys : TRUE
         IN  d[k] + SumOver(d, keys \ {k})

(* The step is a best-coupon request (the one resp' records) *)
RequestStep == resp'.kind = "best" /\ get_best_coupon(resp'.user, resp'.cart)

(* The step is a create-coupon request (the one resp' records) *)
CreateStep == resp'.kind = "create" /\ create_coupon(resp'.input)

(* The stages of the pipeline other than the usage stage *)
PassesOtherStages(day, user, cart, coupon) ==
    /\ coupon.startDate <= day /\ day <= coupon.endDate
    /\ user_eligibility_ok(coupon.eligibility, user, user.ordersPlaced = 0)
    /\ cart_eligibility_ok(coupon.eligibility, cart)
    /\ compute_discount(coupon, compute_cart_value(cart)) > 0

(* The usage stage, as the specification words it *)
UsageBelowLimit(usage, id, coupon) ==
    \/ coupon.usageLimitPerUser = None
    \/ Get(usage, <<id, coupon.code>>) < coupon.usageLimitPerUser[1]

(* Counts stay within the limits; an unlimited coupon passes the usage check *)
C1_CountWithinLimit ==
    \A i \in DOMAIN COUPONS_DB : \A u \in UserPool :
        LET c == COUPONS_DB[i].coupon IN
        IF c.usageLimitPerUser = None
        THEN has_remaining_usage(USAGE_PER_USER, c, u)
        ELSE Get(USAGE_PER_USER, <<u.userId, c.code>>) <= Max(c.usageLimitPerUser[1], 0)

C1_ReturnedOnlyBelowLimit ==
    RequestStep /\ resp'.coupon # None =>
        LET c == resp'.coupon[1] IN
        c.usageLimitPerUser # None =>
            Get(USAGE_PER_USER, <<resp'.user.userId, c.code>>) < c.usageLimitPerUser[1]

(* C1: a coupon with a usage limit L is returned to a user only if the user's  *)
(* count for its code was below L when the request started; the count for a   *)
(* catalog coupon never exceeds max(L, 0); a coupon without a limit always     *)
(* passes the usage check.                                                     *)
C1_UsageLimit == [](C1_CountWithinLimit) /\ [][C1_ReturnedOnlyBelowLimit]_vars

(* A request found a coupon excluded by nothing but its exhausted usage limit *)
C1_Witness ==
    /\ resp.kind = "best"
    /\ \E i \in DOMAIN COUPONS_DB :
        LET c == COUPONS_DB[i].coupon IN
        /\ c.usageLimitPerUser # None
        /\ c.usageLimitPerUser[1] >= 1
        /\ Get(USAGE_PER_USER, <<resp.user.userId, c.code>>) = c.usageLimitPerUser[1]
        /\ PassesOtherStages(today, resp.user, resp.cart, c)
        /\ resp.coupon # Some(c)

(* What a best-coupon request changes *)
C2_RequestFrame ==
    RequestStep =>
        /\ COUPONS_DB' = COUPONS_DB
        /\ IF resp'.coupon = None
           THEN USAGE_PER_USER' = USAGE_PER_USER
           ELSE LET hit == <<resp'.user.userId, resp'.coupon[1].code>> IN
                \A key \in DOMAIN USAGE_PER_USER \cup DOMAIN USAGE_PER_USER' \cup {hit} :
                    Get(USAGE_PER_USER', key) =
                        Get(USAGE_PER_USER, key) + (IF key = hit THEN 1 ELSE 0)

C2_NeverDecrease ==
    \A key \in DOMAIN USAGE_PER_USER :
        key \in DOMAIN USAGE_PER_USER' /\ USAGE_PER_USER'[key] >= USAGE_PER_USER[key]

C2_SumIsReturned == SumOver(USAGE_PER_USER, DOMAIN USAGE_PER_USER) = returned

(* C2: a request that returns coupon c to user u adds exactly 1 to the counter *)
(* of (u.userId, c.code) and changes no other counter and not the catalog; a   *)
(* request that returns no coupon changes nothing; counters never decrease and *)
(* their sum is the number of requests that returned a coupon.                 *)
C2_UsageFrame ==
    /\ [](C2_SumIsReturned)
    /\ [][C2_RequestFrame /\ C2_NeverDecrease]_vars

(* Several requests returned coupons, to more than one key, and one found none *)
C2_Witness ==
    /\ returned >= 2
    /\ Cardinality(DOMAIN USAGE_PER_USER) >= 2
    /\ resp.kind = "best"
    /\ resp.coupon = None

(* What a create-coupon request changes *)
C6_CreateEffect ==
    CreateStep =>
        LET coupon == resp'.input IN
            IF \E i \in DOMAIN COUPONS_DB : COUPONS_DB[i].key = Upper(coupon.code)
            THEN /\ resp'.status = 400
                 /\ COUPONS_DB' = COUPONS_DB
                 /\ USAGE_PER_USER' = USAGE_PER_USER
            ELSE /\ resp'.status = 200
                 /\ Len(COUPONS_DB') = Len(COUPONS_DB) + 1
                 /\ SubSeq(COUPONS_DB', 1, Len(COUPONS_DB)) = COUPONS_DB
                 /\ COUPONS_DB'[Len(COUPONS_DB')].key = Upper(coupon.code)
                 /\ COUPONS_DB'[Len(COUPONS_DB')].coupon.code = Upper(coupon.code)
                 /\ USAGE_PER_USER' = USAGE_PER_USER

C6_KeysAreCodes ==
    /\ \A i \in DOMAIN COUPONS_DB : COUPONS_DB[i].key = COUPONS_DB[i].coupon.code
    /\ \A i, j \in DOMAIN COUPONS_DB : COUPONS_DB[i].key = COUPONS_DB[j].key => i = j

C6_EntriesKept ==
    \A i \in DOMAIN COUPONS_DB : i \in DOMAIN COUPONS_DB' /\ COUPONS_DB'[i] = COUPONS_DB[i]

(* C6: a create request whose upper-cased code is a key of the catalog is      *)
(* rejected and changes neither the catalog nor the counters; otherwise it     *)
(* adds one entry under the upper-cased code, whose coupon carries that code,  *)
(* and changes no other entry; every key is the code of its coupon, keys are   *)
(* unique, and no entry is ever removed or replaced.                           *)
C6_Catalog == [](C6_KeysAreCodes) /\ [][C6_CreateEffect /\ C6_EntriesKept]_vars

(* A code that differs from a stored one only in letter case was rejected *)
C6_Witness ==
    /\ resp.kind = "create"
    /\ resp.status = 400
    /\ resp.input.code # Upper(resp.input.code)
    /\ \E i \in DOMAIN COUPONS_DB :
        /\ COUPONS_DB[i].key = Upper(resp.input.code)
        /\ COUPONS_DB[i].coupon # [resp.input EXCEPT !.code = Upper(resp.input.code)]

(* The five stages, on the state the request starts in *)
PassesFiveStages(usage, day, user, cart, coupon) ==
    /\ UsageBelowLimit(usage, user.userId, coupon)
    /\ PassesOtherStages(day, user, cart, coupon)

C7_RequestResult ==
    RequestStep =>
        LET user == resp'.user
            cart == resp'.cart
        IN  IF \E i \in DOMAIN COUPONS_DB :
                  PassesFiveStages(USAGE_PER_USER, today, user, cart, COUPONS_DB[i].coupon)
            THEN /\ resp'.coupon # None
                 /\ \E i \in DOMAIN COUPONS_DB : COUPONS_DB[i].coupon = resp'.coupon[1]
                 /\ PassesFiveStages(USAGE_PER_USER, today, user, cart, resp'.coupon[1])
                 /\ resp'.discountAmount =
                        compute_discount(resp'.coupon[1], compute_cart_value(cart))
                 /\ resp'.discountAmount > 0
                 /\ resp'.coupon[1].startDate <= resp'.coupon[1].endDate
            ELSE /\ resp'.coupon = None
                 /\ resp'.discountAmount = 0

(* C7: a request returns a coupon iff some catalog coupon passes the five      *)
(* stages (date, usage, user eligibility, cart eligibility, discount > 0); a   *)
(* returned coupon is a catalog coupon that passes them, with its own discount *)
(* > 0 and startDate <= endDate; otherwise coupon = none and discount = 0.     *)
C7_ReturnsIffEligible == [][C7_RequestResult]_vars

(* No coupon was returned although a catalog coupon passed every stage but the *)
(* last: its discount on this cart is zero                                     *)
C7_Witness ==
    /\ resp.kind = "best"
    /\ resp.coupon = None
    /\ resp.discountAmount = 0
    /\ \E i \in DOMAIN COUPONS_DB :
        LET c == COUPONS_DB[i].coupon IN
        /\ c.startDate <= today /\ today <= c.endDate
        /\ UsageBelowLimit(USAGE_PER_USER, resp.user.userId, c)
        /\ user_eligibility_ok(c.eligibility, resp.user, resp.user.ordersPlaced = 0)
        /\ cart_eligibility_ok(c.eligibility, resp.cart)
        /\ compute_discount(c, compute_cart_value(resp.cart)) = 0
    /\ \E i \in DOMAIN COUPONS_DB :
        COUPONS_DB[i].coupon.startDate > COUPONS_DB[i].coupon.endDate

-----------------------------------------------------------------------------
(* Calls of the pure functions: Init draws the arguments, the action calls *)

MaxCands == 3

Pending == [done |-> FALSE]
Result(v) == [done |-> TRUE, value |-> v]

SvcIdle ==
    /\ COUPONS_DB = <<>>
    /\ USAGE_PER_USER = <<>>
    /\ today = 1
    /\ resp = [kind |-> "none"]
    /\ returned = 0
    /\ threads = Unused
    /\ fixed = Unused
    /\ hist = Unused
    /\ USAGE_TWIN = Unused
    /\ respTwin = Unused

PureFrame == UNCHANGED <<svcVars, threads, fixed, hist, USAGE_TWIN, respTwin, arg>>

(* Candidates as get_best_coupon builds them: catalog coupons, whose codes are *)
(* upper-cased and pairwise distinct, each with a discount > 0                 *)
CandidatePool ==
    { [coupon |-> Coupon(code, FLAT, 10, None, 1, ed, None, DefaultEligibility),
       discount |-> d] :
        code \in {<<65>>, <<65, 49>>, <<65, 66>>, <<66>>}, ed \in {1, 2}, d \in {500, 1000} }

DistinctCodes(l) ==
    \A i, j \in DOMAIN l : l[i].coupon.code = l[j].coupon.code => i = j

CandidateLists ==
    {l \in UNION {[1..n -> CandidatePool] : n \in 0..MaxCands} : DistinctCodes(l)}

InitPick ==
    /\ SvcIdle
    /\ arg \in {[coupons |-> l] : l \in CandidateLists}
    /\ ret = Pending

CallPickBestCoupon ==
    /\ ~ret.done
    /\ ret' = Result(pick_best_coupon(arg.coupons))
    /\ PureFrame

SpecPick == InitPick /\ [][CallPickBestCoupon]_vars

(* The order of the selection rule: higher discount, then earlier endDate, *)
(* then smaller code                                                       *)
Precedes(a, b) ==
    \/ a.discount > b.discount
    \/ a.discount = b.discount /\ a.coupon.endDate < b.coupon.endDate
    \/ /\ a.discount = b.discount
       /\ a.coupon.endDate = b.coupon.endDate
       /\ StrLess(a.coupon.code, b.coupon.code)

IndexPermutations(n) == {p \in [1..n -> 1..n] : \A i, j \in 1..n : p[i] = p[j] => i = j}

(* C4: pick_best_coupon returns none iff the list is empty; otherwise it       *)
(* returns the one candidate that precedes every other candidate in the order  *)
(* (discount descending, endDate ascending, code ascending), and it returns    *)
(* the same pair for every permutation of the list.                            *)
C4_PickBest ==
    ret.done =>
        LET l == arg.coupons IN
        /\ ret.value = None <=> l = <<>>
        /\ l # <<>> =>
            /\ \E i \in DOMAIN l :
                /\ l[i] = ret.value[1]
                /\ \A j \in DOMAIN l \ {i} : Precedes(l[i], l[j])
            /\ \A p \in IndexPermutations(Len(l)) :
                pick_best_coupon([i \in 1..Len(l) |-> l[p[i]]]) = ret.value

(* The pick among three candidates was decided by the endDate against the code *)
(* order, and the winner was not first in the list                             *)
C4_Witness ==
    /\ ret.done
    /\ Len(arg.coupons) = 3
    /\ ret.value[1] # arg.coupons[1]
    /\ \E j \in DOMAIN arg.coupons :
        /\ arg.coupons[j].discount = ret.value[1].discount
        /\ arg.coupons[j].coupon.endDate > ret.value[1].coupon.endDate
        /\ StrLess(arg.coupons[j].coupon.code, ret.value[1].coupon.code)
    /\ \E j \in DOMAIN arg.coupons :
        /\ arg.coupons[j].discount = ret.value[1].discount
        /\ arg.coupons[j].coupon.endDate = ret.value[1].coupon.endDate
        /\ arg.coupons[j] # ret.value[1]

(* compute_discount on any coupon and any cart *)
DiscountCoupons ==
    { Coupon(<<65>>, dtype, dvalue, cap, 1, 1, None, DefaultEligibility) :
        dtype \in {FLAT, <<102, 108, 97, 116>>, PERCENT,
                   <<80, 101, 114, 99, 101, 110, 116>>, <<66, 79, 71, 79>>},
        dvalue \in {-10, 0, 10, 50, 150},
        cap \in {None, Some(-5), Some(0), Some(20)} }

(* Carts with non-negative quantities; unitPrice is any number *)
DiscountCarts ==
    CartPool \cup
    { <<CartItem("p4", "grocery", -5, 1)>>,
      <<CartItem("p1", "electronics", 100, 1), CartItem("p5", "voucher", -30, 2)>> }

InitDiscount ==
    /\ SvcIdle
    /\ arg \in [coupon : DiscountCoupons, cart : DiscountCarts]
    /\ ret = Pending

CallComputeDiscount ==
    /\ ~ret.done
    /\ ret' = Result(compute_discount(arg.coupon, compute_cart_value(arg.cart)))
    /\ PureFrame

SpecDiscount == InitDiscount /\ [][CallComputeDiscount]_vars

(* The raw discount of the specification, in hundredths *)
RawDiscount(coupon, cart_value) ==
    IF Upper(coupon.discountType) = FLAT THEN 100 * coupon.discountValue
    ELSE IF Upper(coupon.discountType) = PERCENT THEN
        IF coupon.maxDiscountAmount = None
        THEN cart_value * coupon.discountValue
        ELSE Min(cart_value * coupon.discountValue, 100 * coupon.maxDiscountAmount[1])
    ELSE 0

UserRules ==
    { Eligibility(tiers, spend, orders, first, countries, None, None, None, None) :
        tiers \in {None, Some(<<>>), Some(<<"GOLD">>)},
        spend \in {None, Some(100)},
        orders \in {None, Some(1)},
        first \in {None, Some(FALSE), Some(TRUE)},
        countries \in {None, Some(<<>>), Some(<<"IN">>)} }

CartRules ==
    { Eligibility(None, None, None, None, None, cartv, applicable, excluded, items) :
        cartv \in {None, Some(50)},
        applicable \in {None, Some(<<>>), Some(<<"electronics">>)},
        excluded \in {None, Some(<<>>), Some(<<"grocery">>)},
        items \in {None, Some(1)} }

EligibilityCarts ==
    CartPool \cup
    { <<CartItem("p1", "electronics", 100, 1), CartItem("p2", "grocery", 5, 1)>> }

InitEligibility ==
    /\ SvcIdle
    /\ arg \in [fn : {"user"}, elig : UserRules, user : UserPool, is_first_order : BOOLEAN]
            \cup [fn : {"cart"}, elig : CartRules, cart : EligibilityCarts]
    /\ ret = Pending

CallUserEligibility ==
    /\ ~ret.done
    /\ arg.fn = "user"
    /\ ret' = Result(user_eligibility_ok(arg.elig, arg.user, arg.is_first_order))
    /\ PureFrame

CallCartEligibility ==
    /\ ~ret.done
    /\ arg.fn = "cart"
    /\ ret' = Result(cart_eligibility_ok(arg.elig, arg.cart))
    /\ PureFrame

NextEligibility == CallUserEligibility \/ CallCartEligibility

SpecEligibility == InitEligibility /\ [][NextEligibility]_vars

(* Every present user-side constraint is satisfied *)
UserConstraintsMet(elig, user, is_first_order) ==
    /\ elig.allowedUserTiers # None => InList(user.userTier, elig.allowedUserTiers[1])
    /\ elig.minLifetimeSpend # None => user.lifetimeSpend >= elig.minLifetimeSpend[1]
    /\ elig.minOrdersPlaced # None => user.ordersPlaced >= elig.minOrdersPlaced[1]
    /\ elig.firstOrderOnly # None => ~(elig.firstOrderOnly[1] /\ ~is_first_order)
    /\ elig.allowedCountries # None => InList(user.country, elig.allowedCountries[1])

(* Every present cart-side constraint is satisfied *)
CartConstraintsMet(elig, cart) ==
    LET categories == {cart[i].category : i \in DOMAIN cart} IN
    /\ elig.minCartValue # None => compute_cart_value(cart) >= elig.minCartValue[1]
    /\ elig.minItemsCount # None => compute_items_count(cart) >= elig.minItemsCount[1]
    /\ elig.applicableCategories # None =>
            \E c \in categories : InList(c, elig.applicableCategories[1])
    /\ elig.excludedCategories # None =>
            ~(\E c \in categories : InList(c, elig.excludedCategories[1]))

(* C8: each check returns true iff every constraint whose field is present   *)
(* (not None) is satisfied; a present empty allowedUserTiers, allowedCountries *)
(* or applicableCategories therefore rejects.                                  *)
C8_PresentConstraintsEnforced ==
    ret.done =>
        IF arg.fn = "user"
        THEN ret.value = UserConstraintsMet(arg.elig, arg.user, arg.is_first_order)
        ELSE ret.value = CartConstraintsMet(arg.elig, arg.cart)

-----------------------------------------------------------------------------
(* Concurrent best-coupon requests of one user. The handlers are plain `def` *)
(* routes, which the framework runs on worker threads; nothing in them takes *)
(* a lock. A thread's steps are the loop body for one coupon (which reads    *)
(* the usage counter), the pick, the read of increment_usage and its write.  *)

NumThreads == 2

Threads == 1..NumThreads

RECURSIVE CatalogsUpTo(_)
CatalogsUpTo(n) ==
    IF n = 0 THEN {<<>>}
    ELSE LET prev == CatalogsUpTo(n - 1)
         IN  prev \cup {CreateResult(db, c).db : db \in prev, c \in CouponPool}

(* The requests of user u1 (any profile) for the electronics cart *)
ConcurrentUsers == {u \in UserPool : u.userId = "u1"}
ConcurrentCart == <<CartItem("p1", "electronics", 100, 1)>>

InitConcurrent ==
    /\ COUPONS_DB \in CatalogsUpTo(MaxCoupons)
    /\ USAGE_PER_USER = <<>>
    /\ today \in 1..MaxDay
    /\ resp = [kind |-> "none"]
    /\ returned = 0
    /\ threads = [t \in Threads |-> [pc |-> "idle"]]
    /\ fixed = Unused
    /\ hist = Unused
    /\ USAGE_TWIN = Unused
    /\ respTwin = Unused
    /\ arg = Unused
    /\ ret = Unused

ConcurrentFrame(changed_usage) ==
    /\ UNCHANGED <<COUPONS_DB, today, resp, returned>>
    /\ UNCHANGED <<fixed, hist, USAGE_TWIN, respTwin, arg, ret>>
    /\ changed_usage \/ UNCHANGED USAGE_PER_USER

(* lines 223-232: the request is read, the candidate list is empty *)
ThreadBegin(t, user) ==
    /\ threads[t].pc = "idle"
    /\ threads' = [threads EXCEPT ![t] =
            [pc |-> "loop", user |-> user, cart |-> ConcurrentCart, day |-> today,
             i |-> 1, candidate_discounts |-> <<>>]]
    /\ ConcurrentFrame(FALSE)

(* lines 234-254: one iteration of the loop over COUPONS_DB.values() *)
ThreadLoop(t) ==
    LET th == threads[t] IN
    /\ th.pc = "loop"
    /\ th.i <= Len(COUPONS_DB)
    /\ LET coupon == COUPONS_DB[th.i].coupon
           discount == compute_discount(coupon, compute_cart_value(th.cart))
       IN  threads' = [threads EXCEPT ![t] =
                [th EXCEPT !.i = th.i + 1,
                           !.candidate_discounts =
                                IF PassesFilters(USAGE_PER_USER, th.day, th.user, th.cart, coupon)
                                THEN Append(th.candidate_discounts,
                                            [coupon |-> coupon, discount |-> discount])
                                ELSE th.candidate_discounts]]
    /\ ConcurrentFrame(FALSE)

(* lines 256-261: the pick; without a candidate the request is answered *)
ThreadPick(t) ==
    LET th == threads[t]
        best == pick_best_coupon(th.candidate_discounts)
    IN  /\ th.pc = "loop"
        /\ th.i > Len(COUPONS_DB)
        /\ threads' = [threads EXCEPT ![t] =
                IF best = None
                THEN [pc |-> "done", user |-> th.user, coupon |-> None, discountAmount |-> 0]
                ELSE [pc |-> "read", user |-> th.user, best |-> best[1]]]
        /\ ConcurrentFrame(FALSE)

(* line 189, right-hand side: USAGE_PER_USER.get(key, 0) *)
ThreadIncrementRead(t) ==
    LET th == threads[t] IN
    /\ th.pc = "read"
    /\ threads' = [threads EXCEPT ![t] =
            [pc |-> "write", user |-> th.user, best |-> th.best,
             used |-> Get(USAGE_PER_USER, <<th.user.userId, th.best.coupon.code>>)]]
    /\ ConcurrentFrame(FALSE)

(* line 189, the store, and line 266, the response *)
ThreadIncrementWrite(t) ==
    LET th == threads[t] IN
    /\ th.pc = "write"
    /\ USAGE_PER_USER' = Put(USAGE_PER_USER, <<th.user.userId, th.best.coupon.code>>,
                             th.used + 1)
    /\ threads' = [threads EXCEPT ![t] =
            [pc |-> "done", user |-> th.user, coupon |-> Some(th.best.coupon),
             discountAmount |-> th.best.discount]]
    /\ ConcurrentFrame(TRUE)

NextConcurrent ==
    \E t \in Threads :
        \/ \E user \in ConcurrentUsers : ThreadBegin(t, user)
        \/ ThreadLoop(t)
        \/ ThreadPick(t)
        \/ ThreadIncrementRead(t)
        \/ ThreadIncrementWrite(t)

SpecConcurrent == InitConcurrent /\ [][NextConcurrent]_vars

(* The requests that were answered with the coupon of this code *)
AnsweredWith(code) ==
    {t \in Threads : threads[t].pc = "done" /\ threads[t].coupon # None
                     /\ threads[t].coupon[1].code = code}

(* C3: with concurrent requests of one user, check usage -> decide ->        *)
(* increment is atomic per (userId, code): no two requests both see the      *)
(* count below the limit and both take the coupon, so neither the count nor  *)
(* the number of requests answered with the coupon exceeds the limit.        *)
C3_AtomicPerKey ==
    \A i \in DOMAIN COUPONS_DB :
        LET c == COUPONS_DB[i].coupon IN
        c.usageLimitPerUser # None =>
            /\ Get(USAGE_PER_USER, <<"u1", c.code>>) <= Max(c.usageLimitPerUser[1], 0)
            /\ Cardinality(AnsweredWith(c.code)) <= Max(c.usageLimitPerUser[1], 0)

-----------------------------------------------------------------------------
(* Repeated requests: the catalog and the day are fixed, and every user     *)
(* repeats one request (one profile, one cart).                              *)

RequestsOf(id) == [user : {u \in UserPool : u.userId = id}, cart : CartPool]

InitRepeat ==
    /\ COUPONS_DB \in CatalogsUpTo(MaxCoupons)
    /\ USAGE_PER_USER = <<>>
    /\ today \in 1..MaxDay
    /\ resp = [kind |-> "none"]
    /\ returned = 0
    /\ fixed \in {f \in [UserIds -> UNION {RequestsOf(id) : id \in UserIds}] :
                    \A id \in UserIds : f[id].user.userId = id}
    /\ hist = [id \in UserIds |-> [last |-> None, hits |-> 0]]
    /\ threads = Unused
    /\ USAGE_TWIN = Unused
    /\ respTwin = Unused
    /\ arg = Unused
    /\ ret = Unused

(* POST /best-coupon with the user's request, and what the user has seen *)
RepeatRequest(id) ==
    LET user == fixed[id].user
        cart == fixed[id].cart
        best == pick_best_coupon(
                    candidate_discounts(COUPONS_DB, USAGE_PER_USER, today, user, cart))
        r == BestCouponResponse(user, cart, best)
    IN  /\ returned < MaxReturned
        /\ USAGE_PER_USER' = UsageAfter(USAGE_PER_USER, user, best)
        /\ resp' = r
        /\ returned' = IF best = None THEN returned ELSE returned + 1
        /\ hist' = [hist EXCEPT ![id] =
                [last |-> Some(r.discountAmount),
                 hits |-> IF r.coupon = None THEN hist[id].hits ELSE hist[id].hits + 1]]
        /\ UNCHANGED <<COUPONS_DB, today, fixed>>
        /\ UNCHANGED <<threads, USAGE_TWIN, respTwin, arg, ret>>

NextRepeat == \E id \in UserIds : RepeatRequest(id)

SpecRepeat == InitRepeat /\ [][NextRepeat]_vars

RECURSIVE LimitSum(_)
LimitSum(db) ==
    IF db = <<>> THEN 0
    ELSE Max(Head(db).coupon.usageLimitPerUser[1], 0) + LimitSum(Tail(db))

(* From one answer to a user to the next *)
C9_DiscountNotIncreasing ==
    \A id \in UserIds :
        hist[id].last # None =>
            /\ hist'[id].last[1] <= hist[id].last[1]
            /\ hist[id].last[1] = 0 => hist'[id].hits = hist[id].hits

C9_HitsWithinLimits ==
    (\A i \in DOMAIN COUPONS_DB : COUPONS_DB[i].coupon.usageLimitPerUser # None) =>
        \A id \in UserIds : hist[id].hits <= LimitSum(COUPONS_DB)

(* C9: the discounts a user receives for a repeated request never increase; *)
(* after 'no coupon' (discount 0) every later answer is 'no coupon'; if     *)
(* every catalog coupon has a limit, the requests of a user that returned a *)
(* coupon number at most the sum of max(limit, 0) over the catalog.         *)
C9_Repeat == [](C9_HitsWithinLimits) /\ [][C9_DiscountNotIncreasing]_vars

(* A user used up every limited coupon of the catalog and then got 'no     *)
(* coupon', while the other user's requests were served in between         *)
C9_Witness ==
    /\ \A i \in DOMAIN COUPONS_DB : COUPONS_DB[i].coupon.usageLimitPerUser # None
    /\ \E id \in UserIds :
        /\ hist[id].hits >= 2
        /\ hist[id].hits = LimitSum(COUPONS_DB)
        /\ hist[id].last = Some(0)
        /\ \E other \in UserIds \ {id} : hist[other].last # None

-----------------------------------------------------------------------------
(* Two copies of the service, with the same catalog and day. User u1 sends *)
(* the same requests to both; the requests of the other users differ.       *)
(* resp and respTwin are the last answers u1 received.                      *)

Observed == "u1"

InitTwin ==
    /\ COUPONS_DB \in CatalogsUpTo(MaxCoupons)
    /\ USAGE_PER_USER = <<>>
    /\ USAGE_TWIN = <<>>
    /\ today \in 1..MaxDay
    /\ resp = [kind |-> "none"]
    /\ respTwin = [kind |-> "none"]
    /\ returned = 0
    /\ threads = Unused
    /\ fixed = Unused
    /\ hist = Unused
    /\ arg = Unused
    /\ ret = Unused

TwinFrame ==
    /\ UNCHANGED <<COUPONS_DB, today>>
    /\ UNCHANGED <<threads, fixed, hist, arg, ret>>

(* POST /best-coupon by the observed user, in both copies *)
ObservedRequest(user, cart) ==
    LET best == pick_best_coupon(
                    candidate_discounts(COUPONS_DB, USAGE_PER_USER, today, user, cart))
        bestTwin == pick_best_coupon(
                    candidate_discounts(COUPONS_DB, USAGE_TWIN, today, user, cart))
    IN  /\ user.userId = Observed
        /\ returned < MaxReturned
        /\ USAGE_PER_USER' = UsageAfter(USAGE_PER_USER, user, best)
        /\ USAGE_TWIN' = UsageAfter(USAGE_TWIN, user, bestTwin)
        /\ resp' = BestCouponResponse(user, cart, best)
        /\ respTwin' = BestCouponResponse(user, cart, bestTwin)
        /\ returned' = returned + 1
        /\ TwinFrame

(* POST /best-coupon by another user, in the first copy only *)
OtherRequest(user, cart) ==
    LET best == pick_best_coupon(
                    candidate_discounts(COUPONS_DB, USAGE_PER_USER, today, user, cart))
    IN  /\ user.userId # Observed
        /\ returned < MaxReturned
        /\ USAGE_PER_USER' = UsageAfter(USAGE_PER_USER, user, best)
        /\ returned' = returned + 1
        /\ UNCHANGED <<USAGE_TWIN, resp, respTwin>>
        /\ TwinFrame

(* POST /best-coupon by another user, in the second copy only *)
OtherRequestTwin(user, cart) ==
    LET best == pick_best_coupon(
                    candidate_discounts(COUPONS_DB, USAGE_TWIN, today, user, cart))
    IN  /\ user.userId # Observed
        /\ returned < MaxReturned
        /\ USAGE_TWIN' = UsageAfter(USAGE_TWIN, user, best)
        /\ returned' = returned + 1
        /\ UNCHANGED <<USAGE_PER_USER, resp, respTwin>>
        /\ TwinFrame

NextTwin ==
    \E user \in UserPool, cart \in CartPool :
        \/ ObservedRequest(user, cart)
        \/ OtherRequest(user, cart)
        \/ OtherRequestTwin(user, cart)

SpecTwin == InitTwin /\ [][NextTwin]_vars

CountersOf(usage, id) ==
    [k \in {key \in DOMAIN usage : key[1] = id} |-> usage[k]]

(* C10: the observed user receives the same coupon and discount in both    *)
(* copies, whatever the other users requested in either, and the observed  *)
(* user's counters are the same in both copies.                            *)
C10_Isolation ==
    /\ resp = respTwin
    /\ CountersOf(USAGE_PER_USER, Observed) = CountersOf(USAGE_TWIN, Observed)

(* The observed user was answered with a coupon that another user had used *)
(* up in one copy and not in the other                                     *)
C10_Witness ==
    /\ resp.kind = "best"
    /\ resp.coupon # None
    /\ resp.coupon[1].usageLimitPerUser # None
    /\ \E key \in DOMAIN USAGE_PER_USER :
        /\ key[1] # Observed
        /\ key[2] = resp.coupon[1].code
        /\ USAGE_PER_USER[key] = resp.coupon[1].usageLimitPerUser[1]
        /\ key \notin DOMAIN USAGE_TWIN

====
